---- MODULE Spec2Model ----
(***************************************************************************)
(* boom-rust: an HTTP load generator.  main (src/src/main.rs) creates      *)
(* opt.concurrency worker threads, each with its own mpsc channel, sends   *)
(* opt.num_requests work items round-robin, sends one None per worker,     *)
(* joins the threads and finalizes the shared Report (src/src/report.rs).  *)
(*                                                                         *)
(* Times are kept in whole microseconds: the f32 millisecond fields of the *)
(* Report (time_total, results[i].1, time_average, ...) hold the model's   *)
(* value divided by 1000.                                                  *)
(***************************************************************************)
EXTENDS Integers, Sequences, FiniteSets, TLC

\* ------------------------------------------------------------- bounds
MaxN == 3
MaxC == 2

\* ------------------------------------------------- program constants
SizeHintDefault == 1025
MicrosPerSec == 1000000

\* ------------------------------------------------- environment inputs
\* -c values: a negative one, zero, and 1..MaxC
ConcValues == {-1} \cup (0..MaxC)
NumValues == 0..MaxN
\* wall-clock microseconds main spends besides the requests themselves
SlackMicros == {500, 1000000}

WorkerIds == 0..(MaxC - 1)
NoOne == -1
NoRes == [status |-> 0, elapsed |-> 0, bytes |-> 0, hinted |-> FALSE]

VARIABLES
    conc,        \* opt.concurrency
    num,         \* opt.num_requests
    mainpc,      \* position of main
    fault,       \* the panic that ended main, or "none"
    created,     \* workers.len() == handles.len()
    cnt,         \* loop variable of the dispatch loop
    stopIdx,     \* index of the next worker to be sent None
    joinIdx,     \* index of the next handle to join
    sent,        \* per worker: every item sent on its channel, in order
    rcvd,        \* per worker: how many items rx.recv() has returned
    wpc,         \* per worker: position of the worker thread
    res,         \* per worker: the response of the request in progress
    lock,        \* holder of the Report mutex, or NoOne
    report,      \* the Report behind the mutex
    dispatchLog, \* history: the offset chosen for request i, in order
    completed,   \* history: number of HTTP exchanges that returned a response
    bytes200,    \* history: sum of the real body lengths of status-200 responses
    elapsedLog,  \* history: real elapsed time of each observation, in push order
    pushed,      \* history: per worker, the observations it has pushed
    runMicros,   \* history: real microseconds from t1 to t2 of main
    histogram,   \* counts of print_histogram, <<>> before it has run
    latency      \* data of print_latency, <<>> before it has run

vars == <<conc, num, mainpc, fault, created, cnt, stopIdx, joinIdx, sent, rcvd,
          wpc, res, lock, report, dispatchLog, completed, bytes200, elapsedLog,
          pushed, runMicros, histogram, latency>>

history == <<dispatchLog, completed, bytes200, elapsedLog, pushed, runMicros>>

\* what Report::print computes in locals and prints
printed == <<histogram, latency>>

\* --------------------------------------------------------- helpers

\* Report::new(): every field at its Default
NewReport ==
    [size_total |-> 0, size_per_req |-> 0, req_per_sec |-> 0, time_total |-> 0,
     time_exec_total |-> 0, time_average |-> 0, req_num |-> 0, results |-> <<>>,
     status_num |-> <<>>, time_slowest |-> 0, time_fastest |-> 0, lats |-> <<>>]

Abs(x) == IF x < 0 THEN -x ELSE x

\* Rust's % on i32 for a non-negative dividend: truncated remainder
RustRem(a, b) == a % Abs(b)

OffsetOffByOne(c, n) == RustRem(c + 1, n)

\* ((cnt as i32) % opt.concurrency) as usize
Offset(c, n) == RustRem(c, n)

\* Duration::subsec_micros(): the fractional part of the duration only
SubsecMicros(d) == d % MicrosPerSec

IncStatusOverwrite(sn, code) ==
    IF code \in DOMAIN sn THEN [sn EXCEPT ![code] = 1] ELSE sn @@ (code :> 1)

IncStatusDouble(sn, code) ==
    LET e == IF code \in DOMAIN sn THEN sn ELSE sn @@ (code :> 0)
    IN [e EXCEPT ![code] = @ + 2]

\* *status_num.entry(code).or_insert(0) += 1
IncStatus(sn, code) ==
    LET e == IF code \in DOMAIN sn THEN sn ELSE sn @@ (code :> 0)
    IN [e EXCEPT ![code] = @ + 1]

RECURSIVE SumOver(_, _)
SumOver(f, S) ==
    IF S = {} THEN 0
    ELSE LET x == CHOOSE y \in S : TRUE IN f[x] + SumOver(f, S \ {x})

\* sum of status_num.values()
SumStatus(sn) == SumOver(sn, DOMAIN sn)

RECURSIVE SumSeq(_)
SumSeq(s) == IF s = <<>> THEN 0 ELSE Head(s) + SumSeq(Tail(s))

\* match res.body().size_hint().upper() { Some(v) => v, None => 1025 }
ContentLen(r) == IF r.hinted THEN r.bytes ELSE SizeHintDefault

\* items not yet received on worker w's channel
Pending(w) == SubSeq(sent[w], rcvd[w] + 1, Len(sent[w]))

\* the Receiver of worker w is gone once its thread has ended
ReceiverDropped(w) == wpc[w] \in {"exited", "panicked"}

\* the process lives until main returns or panics
ProcessAlive == mainpc \notin {"done", "panicked"}

Panic(reason) == /\ mainpc' = "panicked"
                 /\ fault' = reason

\* ------------------------------------------------------------ Init
Init ==
    /\ conc \in ConcValues
    /\ num \in NumValues
    /\ mainpc = "create"
    /\ fault = "none"
    /\ created = 0
    /\ cnt = 0
    /\ stopIdx = 0
    /\ joinIdx = 0
    /\ sent = [w \in WorkerIds |-> <<>>]
    /\ rcvd = [w \in WorkerIds |-> 0]
    /\ wpc = [w \in WorkerIds |-> "unborn"]
    /\ res = [w \in WorkerIds |-> NoRes]
    /\ lock = NoOne
    /\ report = NewReport
    /\ dispatchLog = <<>>
    /\ completed = 0
    /\ bytes200 = 0
    /\ elapsedLog = <<>>
    /\ pushed = [w \in WorkerIds |-> 0]
    /\ runMicros = 0
    /\ histogram = <<>>
    /\ latency = <<>>

\* ------------------------------------------------------------ main

\* one iteration of "for _ in 0..opt.concurrency": channel(), workers.push,
\* thread::spawn of exec_worker
CreateWorker ==
    /\ mainpc = "create"
    /\ created < conc
    /\ created' = created + 1
    /\ wpc' = [wpc EXCEPT ![created] = "recv"]
    /\ UNCHANGED <<conc, num, mainpc, fault, cnt, stopIdx, joinIdx, sent, rcvd,
                   res, lock, report, history, printed>>

\* the creation loop ends; t1 = now; report = Report::new()
CreateDone ==
    /\ mainpc = "create"
    /\ created >= conc
    /\ mainpc' = "dispatch"
    /\ report' = NewReport
    /\ UNCHANGED <<conc, num, fault, created, cnt, stopIdx, joinIdx, sent, rcvd,
                   wpc, res, lock, history, printed>>

\* one iteration of "for cnt in 0..opt.num_requests"
Dispatch ==
    /\ mainpc = "dispatch"
    /\ cnt < num
    /\ IF conc = 0
       THEN \* cnt % 0: attempt to calculate the remainder with a divisor of zero
            /\ Panic("rem_by_zero")
            /\ UNCHANGED <<cnt, sent, dispatchLog>>
       ELSE LET offset == Offset(cnt, conc) IN
            IF offset >= created
            THEN \* workers[offset]: index out of bounds
                 /\ Panic("index_oob")
                 /\ UNCHANGED <<cnt, sent, dispatchLog>>
            ELSE IF ReceiverDropped(offset)
            THEN \* req.send(..) is Err: expect("request.send() error:")
                 /\ Panic("send_err")
                 /\ UNCHANGED <<cnt, sent, dispatchLog>>
            ELSE /\ sent' = [sent EXCEPT ![offset] = Append(@, "Execute")]
                 /\ dispatchLog' = Append(dispatchLog, offset)
                 /\ cnt' = cnt + 1
                 /\ UNCHANGED <<mainpc, fault>>
    /\ UNCHANGED <<conc, num, created, stopIdx, joinIdx, rcvd, wpc, res, lock,
                   report, completed, bytes200, elapsedLog, pushed, runMicros,
                   printed>>

\* the dispatch loop ends
DispatchDone ==
    /\ mainpc = "dispatch"
    /\ cnt >= num
    /\ mainpc' = "stop"
    /\ UNCHANGED <<conc, num, fault, created, cnt, stopIdx, joinIdx, sent, rcvd,
                   wpc, res, lock, report, history, printed>>

\* what "for worker in workers" sends to one worker
StopItemsTwice == <<"Stop", "Stop">>

StopItems == <<"Stop">>

\* one iteration of "for worker in workers": worker.send(None)
SendStop ==
    /\ mainpc = "stop"
    /\ stopIdx < created
    /\ IF ReceiverDropped(stopIdx)
       THEN \* expect("worker.send(None) error:")
            /\ Panic("send_err")
            /\ UNCHANGED <<stopIdx, sent>>
       ELSE /\ sent' = [sent EXCEPT ![stopIdx] = @ \o StopItems]
            /\ stopIdx' = stopIdx + 1
            /\ UNCHANGED <<mainpc, fault>>
    /\ UNCHANGED <<conc, num, created, cnt, joinIdx, rcvd, wpc, res, lock,
                   report, history, printed>>

\* the stop loop ends
StopDone ==
    /\ mainpc = "stop"
    /\ stopIdx >= created
    /\ mainpc' = "join"
    /\ UNCHANGED <<conc, num, fault, created, cnt, stopIdx, joinIdx, sent, rcvd,
                   wpc, res, lock, report, history, printed>>

JoinNoWait ==
    /\ mainpc = "join"
    /\ joinIdx < created
    /\ IF wpc[joinIdx] = "panicked"
       THEN /\ Panic("join_err")
            /\ UNCHANGED joinIdx
       ELSE /\ joinIdx' = joinIdx + 1
            /\ UNCHANGED <<mainpc, fault>>
    /\ UNCHANGED <<conc, num, created, cnt, stopIdx, sent, rcvd, wpc, res, lock,
                   report, history, printed>>

\* one iteration of "for handle in handles": handle.join() blocks until the
\* thread has ended and is Err when it panicked
Join ==
    /\ mainpc = "join"
    /\ joinIdx < created
    /\ wpc[joinIdx] \in {"exited", "panicked"}
    /\ IF wpc[joinIdx] = "panicked"
       THEN \* expect("thread.join() error:")
            /\ Panic("join_err")
            /\ UNCHANGED joinIdx
       ELSE /\ joinIdx' = joinIdx + 1
            /\ UNCHANGED <<mainpc, fault>>
    /\ UNCHANGED <<conc, num, created, cnt, stopIdx, sent, rcvd, wpc, res, lock,
                   report, history, printed>>

\* the value of an f32 that is infinite or NaN (a division by 0.0)
NonFinite == -1

\* 1000000. * opt.num_requests as f32 / diff, to whole requests per second
RequestPerSeconds(n, diff) ==
    IF diff = 0 THEN NonFinite ELSE (MicrosPerSec * n) \div diff

\* the join loop ends; t2 = now; diff = subsec_micros of t2 - t1;
\* time_exec_total and req_per_sec are stored under the lock
JoinDone ==
    /\ mainpc = "join"
    /\ joinIdx >= created
    /\ lock = NoOne
    /\ \E slack \in SlackMicros :
          LET duration == SumSeq(elapsedLog) + slack
              diff == SubsecMicros(duration)
          IN /\ report' = [report EXCEPT
                             !.time_exec_total = diff,
                             !.req_per_sec = RequestPerSeconds(num, diff)]
             /\ runMicros' = duration
    /\ mainpc' = "finalize"
    /\ UNCHANGED <<conc, num, fault, created, cnt, stopIdx, joinIdx, sent, rcvd,
                   wpc, res, lock, dispatchLog, completed, bytes200, elapsedLog,
                   pushed, printed>>

\* ------------------------------------------------------- Report

\* (u16, f32)::partial_cmp: by status code first, then by latency
TupleLess(a, b) == a[1] < b[1] \/ (a[1] = b[1] /\ a[2] < b[2])

RECURSIVE InsertSorted(_, _)
InsertSorted(x, s) ==
    IF s = <<>> THEN <<x>>
    ELSE IF TupleLess(x, Head(s)) THEN <<x>> \o s
    ELSE <<Head(s)>> \o InsertSorted(x, Tail(s))

RECURSIVE SortResults(_)
\* self.results.sort_by(|a, b| a.partial_cmp(b).unwrap()): a stable sort
SortResults(rs) ==
    IF rs = <<>> THEN <<>>
    ELSE InsertSorted(rs[Len(rs)], SortResults(SubSeq(rs, 1, Len(rs) - 1)))

\* for &(_, t) in self.results.iter() { self.lats.push(t as i32) }
Lats(rs) == [i \in 1..Len(rs) |-> rs[i][2] \div 1000]

\* Report::finalize with req_num /= 0, up to the assignments of Report::print
Finalized(r) ==
    LET sorted == SortResults(r.results) IN
    [r EXCEPT !.results = sorted,
              !.time_average = r.time_total \div r.req_num,
              !.size_per_req = r.size_total \div r.req_num,
              !.lats = Lats(sorted),
              !.time_slowest = sorted[Len(sorted)][2],
              !.time_fastest = sorted[1][2]]

\* bc of print_histogram: buckets and counts have bc + 1 entries, 0..bc
Bc == 10

\* 10 * buckets[i], in microseconds: buckets[i] = time_fastest + bs * i with
\* bs = (time_slowest - time_fastest) / bc for i < bc, buckets[bc] =
\* time_slowest (exact arithmetic in place of f32)
Bucket10(r, i) ==
    IF i = Bc THEN 10 * r.time_slowest
    ELSE 10 * r.time_fastest + (r.time_slowest - r.time_fastest) * i

\* self.lats[ri] as f32 <= buckets[bi]
InBucket(r, ri, bi) == 10 * 1000 * r.lats[ri + 1] <= Bucket10(r, bi)

RECURSIVE HistogramLoop(_, _, _, _)
\* the loop of print_histogram from (ri, bi, counts): its counts when it
\* breaks; when neither branch applies nothing changes and it loops forever
HistogramLoop(r, ri, bi, counts) ==
    IF ri >= Len(r.lats) THEN [stalled |-> FALSE, counts |-> counts]
    ELSE IF InBucket(r, ri, bi)
         THEN HistogramLoop(r, ri + 1, bi, [counts EXCEPT ![bi] = @ + 1])
    ELSE IF bi < Bc THEN HistogramLoop(r, ri, bi + 1, counts)
    ELSE [stalled |-> TRUE, counts |-> counts]

\* Report::print_histogram: the counts of the bc + 1 buckets
PrintHistogram(r) == HistogramLoop(r, 0, 0, [i \in 0..Bc |-> 0])

\* pctls of print_latency
Pctls == <<10, 25, 50, 75, 90, 95, 99>>

RECURSIVE LatencyLoop(_, _, _, _)
\* the loop of print_latency from (i, j, data); j counts from 1 here
LatencyLoop(lats, i, j, data) ==
    IF i >= Len(lats) \/ j > Len(Pctls) THEN data
    ELSE IF (i * 100) \div Len(lats) >= Pctls[j]
         THEN LatencyLoop(lats, i + 1, j + 1, [data EXCEPT ![j] = lats[i + 1]])
    ELSE LatencyLoop(lats, i + 1, j, data)

PrintLatencyFromEnd(lats) ==
    LatencyLoop([i \in 1..Len(lats) |-> lats[Len(lats) + 1 - i]], 0, 1,
                [k \in 1..Len(Pctls) |-> 0])

\* Report::print_latency: data, in whole milliseconds; the line of
\* pctls[i] is printed when data[i] > 0
PrintLatency(lats) == LatencyLoop(lats, 0, 1, [k \in 1..Len(Pctls) |-> 0])

\* report_mut.finalize(): sort, averages, then Report::print with its
\* histogram and latency tables
Finalize ==
    /\ mainpc = "finalize"
    /\ IF report.req_num = 0
       THEN \* time_average = 0.0 / 0.0, then size_total / 0 on i64:
            \* attempt to divide by zero
            /\ report' = [report EXCEPT !.time_average = NonFinite]
            /\ Panic("div_by_zero")
            /\ UNCHANGED printed
       ELSE LET r == Finalized(report)
                h == PrintHistogram(r)
            IN /\ report' = r
               /\ UNCHANGED fault
               /\ IF h.stalled
                  THEN \* main never leaves the loop of print_histogram
                       /\ mainpc' = "hist_loop"
                       /\ UNCHANGED printed
                  ELSE /\ mainpc' = "done"
                       /\ histogram' = h.counts
                       /\ latency' = PrintLatency(r.lats)
    /\ UNCHANGED <<conc, num, created, cnt, stopIdx, joinIdx, sent, rcvd, wpc,
                   res, lock, history>>

\* ---------------------------------------------------------- workers

AfterRecvIgnoreStop(item) == "request"

\* match rx.recv() { Some(wconf) => exec_boom, None => break }
AfterRecv(item) == IF item = "Execute" THEN "request" ELSE "exited"

\* rx.recv() returns the next item of worker w's channel
Recv(w) ==
    /\ ProcessAlive
    /\ wpc[w] = "recv"
    /\ Pending(w) # <<>>
    /\ rcvd' = [rcvd EXCEPT ![w] = @ + 1]
    /\ wpc' = [wpc EXCEPT ![w] = AfterRecv(Head(Pending(w)))]
    /\ UNCHANGED <<conc, num, mainpc, fault, created, cnt, stopIdx, joinIdx,
                   sent, res, lock, report, history, printed>>

\* the responses a server gives: status, real elapsed microseconds, real body
\* length, and whether the body carries a size hint (a Content-Length) or
\* not (a chunked body)
Responses ==
    {[status |-> 200, elapsed |-> 3000, bytes |-> 50, hinted |-> TRUE],
     [status |-> 200, elapsed |-> 1002000, bytes |-> 50, hinted |-> FALSE],
     [status |-> 500, elapsed |-> 3000, bytes |-> 50, hinted |-> TRUE],
     [status |-> 500, elapsed |-> 1002000, bytes |-> 50, hinted |-> FALSE]}

\* client.request(request).await.unwrap(): the exchange ends with a response
\* or with a transport error, on which unwrap panics and the thread ends
HttpReturn(w) ==
    /\ ProcessAlive
    /\ wpc[w] = "request"
    /\ \E ok \in BOOLEAN, r \in Responses :
          IF ok
          THEN /\ res' = [res EXCEPT ![w] = r]
               /\ wpc' = [wpc EXCEPT ![w] = "want_timing"]
               /\ completed' = completed + 1
               /\ bytes200' = bytes200 + (IF r.status = 200 THEN r.bytes ELSE 0)
          ELSE /\ wpc' = [wpc EXCEPT ![w] = "panicked"]
               /\ UNCHANGED <<res, completed, bytes200>>
    /\ UNCHANGED <<conc, num, mainpc, fault, created, cnt, stopIdx, joinIdx,
                   sent, rcvd, lock, report, dispatchLog, elapsedLog, pushed,
                   runMicros, printed>>

LockSites == {"want_timing", "want_other", "want_size", "want_ok"}

Inside(site) ==
    CASE site = "want_timing" -> "in_timing"
      [] site = "want_other" -> "in_other"
      [] site = "want_size" -> "in_size"
      [] site = "want_ok" -> "in_ok"

\* report.lock().unwrap(): blocks while another thread holds the mutex
Acquire(w) ==
    /\ ProcessAlive
    /\ wpc[w] \in LockSites
    /\ lock = NoOne
    /\ lock' = w
    /\ wpc' = [wpc EXCEPT ![w] = Inside(wpc[w])]
    /\ UNCHANGED <<conc, num, mainpc, fault, created, cnt, stopIdx, joinIdx,
                   sent, rcvd, res, report, history, printed>>

\* let diff = duration.subsec_micros() as f32; millisec = diff / 1000.
Millisec(r) == SubsecMicros(r.elapsed)

RecordTimingKeepLock(w) ==
    /\ ProcessAlive
    /\ wpc[w] = "in_timing"
    /\ report' = [report EXCEPT
                    !.time_total = @ + Millisec(res[w]),
                    !.req_num = @ + 1,
                    !.results = Append(@, <<res[w].status, Millisec(res[w])>>)]
    /\ elapsedLog' = Append(elapsedLog, res[w].elapsed)
    /\ pushed' = [pushed EXCEPT ![w] = @ + 1]
    /\ wpc' = [wpc EXCEPT ![w] =
                 IF res[w].status # 200 THEN "want_other" ELSE "want_size"]
    /\ UNCHANGED <<conc, num, mainpc, fault, created, cnt, stopIdx, joinIdx,
                   sent, rcvd, res, lock, dispatchLog, completed, bytes200,
                   runMicros, printed>>

\* first critical section of b: time_total, req_num, results.push; then
\* the test of the status code
RecordTiming(w) ==
    /\ ProcessAlive
    /\ wpc[w] = "in_timing"
    /\ report' = [report EXCEPT
                    !.time_total = @ + Millisec(res[w]),
                    !.req_num = @ + 1,
                    !.results = Append(@, <<res[w].status, Millisec(res[w])>>)]
    /\ elapsedLog' = Append(elapsedLog, res[w].elapsed)
    /\ pushed' = [pushed EXCEPT ![w] = @ + 1]
    /\ lock' = NoOne
    /\ wpc' = [wpc EXCEPT ![w] =
                 IF res[w].status # 200 THEN "want_other" ELSE "want_size"]
    /\ UNCHANGED <<conc, num, mainpc, fault, created, cnt, stopIdx, joinIdx,
                   sent, rcvd, res, dispatchLog, completed, bytes200, runMicros,
                   printed>>

\* status /= 200: status_num[status] += 1; return false
CountOther(w) ==
    /\ ProcessAlive
    /\ wpc[w] = "in_other"
    /\ report' = [report EXCEPT
                    !.status_num = IncStatus(@, res[w].status)]
    /\ lock' = NoOne
    /\ res' = [res EXCEPT ![w] = NoRes]
    /\ wpc' = [wpc EXCEPT ![w] = "recv"]
    /\ UNCHANGED <<conc, num, mainpc, fault, created, cnt, stopIdx, joinIdx,
                   sent, rcvd, history, printed>>

\* status = 200: size_total += content_len
AddSize(w) ==
    /\ ProcessAlive
    /\ wpc[w] = "in_size"
    /\ report' = [report EXCEPT !.size_total = @ + ContentLen(res[w])]
    /\ lock' = NoOne
    /\ wpc' = [wpc EXCEPT ![w] = "want_ok"]
    /\ UNCHANGED <<conc, num, mainpc, fault, created, cnt, stopIdx, joinIdx,
                   sent, rcvd, res, history, printed>>

\* status = 200: status_num[200] += 1; return true
CountOk(w) ==
    /\ ProcessAlive
    /\ wpc[w] = "in_ok"
    /\ report' = [report EXCEPT !.status_num = IncStatus(@, 200)]
    /\ lock' = NoOne
    /\ res' = [res EXCEPT ![w] = NoRes]
    /\ wpc' = [wpc EXCEPT ![w] = "recv"]
    /\ UNCHANGED <<conc, num, mainpc, fault, created, cnt, stopIdx, joinIdx,
                   sent, rcvd, history, printed>>

\* ------------------------------------------------------ specification

MainStep ==
    \/ CreateWorker
    \/ CreateDone
    \/ Dispatch
    \/ DispatchDone
    \/ SendStop
    \/ StopDone
    \/ Join
    \/ JoinDone
    \/ Finalize

WorkerStep(w) ==
    \/ Recv(w)
    \/ HttpReturn(w)
    \/ Acquire(w)
    \/ RecordTiming(w)
    \/ CountOther(w)
    \/ AddSize(w)
    \/ CountOk(w)

Next == MainStep \/ \E w \in WorkerIds : WorkerStep(w)

Spec == Init /\ [][Next]_vars

\* every thread that can take a step eventually takes one
FairSpec ==
    /\ Spec
    /\ WF_vars(MainStep)
    /\ \A w \in WorkerIds : WF_vars(WorkerStep(w))

\* ---------------------------------- the finalizer over longer runs

\* most requests of a run of the finalizer's specification
StatMaxN == 4

\* responses of those runs: the ones above, one faster than a millisecond
\* and one that is no whole number of milliseconds
StatResponses ==
    Responses \cup
    {[status |-> 200, elapsed |-> 500, bytes |-> 50, hinted |-> TRUE],
     [status |-> 500, elapsed |-> 2500, bytes |-> 50, hinted |-> TRUE]}

\* the Report after one worker has run b to its end for response o
Recorded(r, o) ==
    [r EXCEPT !.time_total = @ + Millisec(o),
              !.req_num = @ + 1,
              !.results = Append(@, <<o.status, Millisec(o)>>),
              !.status_num = IncStatus(@, o.status),
              !.size_total = @ + (IF o.status = 200 THEN ContentLen(o) ELSE 0)]

RECURSIVE RecordedAll(_)
RecordedAll(obs) ==
    IF obs = <<>> THEN NewReport
    ELSE Recorded(RecordedAll(SubSeq(obs, 1, Len(obs) - 1)), obs[Len(obs)])

\* the state of a run with -c 1 -n Len(obs) whose exchanges returned the
\* responses obs, when the join loop has ended
AfterJoin(obs) ==
    LET n == Len(obs) IN
    /\ conc = 1
    /\ num = n
    /\ mainpc = "join"
    /\ fault = "none"
    /\ created = 1
    /\ cnt = n
    /\ stopIdx = 1
    /\ joinIdx = 1
    /\ sent = [w \in WorkerIds |->
                 IF w = 0 THEN [i \in 1..n |-> "Execute"] \o StopItems ELSE <<>>]
    /\ rcvd = [w \in WorkerIds |-> IF w = 0 THEN n + 1 ELSE 0]
    /\ wpc = [w \in WorkerIds |-> IF w = 0 THEN "exited" ELSE "unborn"]
    /\ res = [w \in WorkerIds |-> NoRes]
    /\ lock = NoOne
    /\ report = RecordedAll(obs)
    /\ dispatchLog = [i \in 1..n |-> 0]
    /\ completed = n
    /\ bytes200 =
          SumSeq([i \in 1..n |-> IF obs[i].status = 200 THEN obs[i].bytes ELSE 0])
    /\ elapsedLog = [i \in 1..n |-> obs[i].elapsed]
    /\ pushed = [w \in WorkerIds |-> IF w = 0 THEN n ELSE 0]
    /\ runMicros = 0
    /\ histogram = <<>>
    /\ latency = <<>>

StatInit ==
    \E n \in 0..StatMaxN : \E obs \in [1..n -> StatResponses] : AfterJoin(obs)

StatNext == JoinDone \/ Finalize

\* main from the end of the join loop on, after any run of one worker
StatSpec == StatInit /\ [][StatNext]_vars

TypeOK ==
    /\ conc \in ConcValues
    /\ num \in 0..(MaxN + StatMaxN)
    /\ created \in 0..MaxC
    /\ cnt \in 0..(MaxN + StatMaxN)
    /\ lock \in WorkerIds \cup {NoOne}
    /\ report.req_num \in 0..(MaxN + StatMaxN)

\* ------------------------------------------------------------ claims

Count(seq, item) == Cardinality({i \in 1..Len(seq) : seq[i] = item})

\* Execute items sent to worker k so far
ExecSent(k) == Count(sent[k], "Execute")

\* None items sent to worker k so far
StopSent(k) == Count(sent[k], "Stop")

\* ceil(a / c) for c >= 1 and a > -c
CeilDiv(a, c) == (a + c - 1) \div c

\* every iteration of the dispatch loop has run
DispatchComplete == mainpc # "create" /\ cnt = num

\* the join loop has returned
JoinReturned ==
    \/ mainpc \in {"finalize", "done", "hist_loop"}
    \/ mainpc = "panicked" /\ fault = "div_by_zero"

\* worker w has received None
GotStop(w) == rcvd[w] >= 1 /\ sent[w][rcvd[w]] = "Stop"

\* C1: for N >= 0 and C >= 1 request i goes to worker i mod C; once the
\* dispatch loop has run N times, N Execute items have been sent in total
\* and worker k has been sent ceil((N - k) / C) of them.
C1_RoundRobin ==
    (conc >= 1) =>
        /\ Len(dispatchLog) = cnt
        /\ \A i \in 1..Len(dispatchLog) : dispatchLog[i] = (i - 1) % conc
        /\ \A k \in 0..(conc - 1) : ExecSent(k) = Count(dispatchLog, k)
        /\ DispatchComplete =>
              /\ Len(dispatchLog) = num
              /\ \A k \in 0..(conc - 1) : ExecSent(k) = CeilDiv(num - k, conc)

C1_Witness ==
    /\ conc = 2
    /\ num = 3
    /\ mainpc = "stop"
    /\ ExecSent(0) = 2
    /\ ExecSent(1) = 1

\* C2: with C >= 1 a worker is sent at most one Stop, and exactly one once
\* the stop loop has ended; the Stop comes after all the Execute items of
\* that worker; a worker that has received Stop has exited and has received
\* nothing after it.
C2_StopLast ==
    (conc >= 1) =>
        \A w \in 0..(created - 1) :
            /\ StopSent(w) <= 1
            /\ \A i \in 1..Len(sent[w]) :
                  sent[w][i] = "Stop" => i = Len(sent[w])
            /\ StopSent(w) = 1 => ExecSent(w) = CeilDiv(num - w, conc)
            /\ mainpc \in {"join", "finalize", "done", "hist_loop"} =>
                  StopSent(w) = 1
            /\ GotStop(w) => wpc[w] = "exited" /\ rcvd[w] = Len(sent[w])

C2_Witness ==
    /\ conc = 2
    /\ num = 3
    /\ mainpc = "join"
    /\ \A w \in 0..1 : GotStop(w) /\ wpc[w] = "exited" /\ rcvd[w] >= 2

\* every worker thread has ended
WorkersEnded ==
    /\ mainpc # "create"
    /\ \A w \in 0..(created - 1) : wpc[w] \in {"exited", "panicked"}

\* C3: once all workers have ended, req_num, the length of results and the
\* sum of the status counts are equal, and equal to the number of exchanges
\* that returned a response; that number is N when every worker exited
\* through Stop, and so whenever the join loop has returned.
C3_NoLostRecord ==
    (conc >= 1 /\ WorkersEnded) =>
        /\ report.req_num = Len(report.results)
        /\ SumStatus(report.status_num) = report.req_num
        /\ report.req_num = completed
        /\ (\A w \in 0..(created - 1) : wpc[w] = "exited") => completed = num
        /\ JoinReturned => report.req_num = num

C3_Witness ==
    /\ conc = 2
    /\ num = 3
    /\ mainpc = "finalize"
    /\ report.req_num = 3
    /\ DOMAIN report.status_num = {200, 500}
    /\ report.status_num[200] = 2

\* C4: a transport failure of one exchange never ends the worker thread nor
\* the process: no worker panics and main does not panic on a send to, or
\* the join of, a worker.
C4_FailureSurvived ==
    /\ \A w \in WorkerIds : wpc[w] # "panicked"
    /\ fault \notin {"send_err", "join_err"}

\* C5: with N = 0 and C >= 1 the run ends without a panic and finalization
\* leaves time_average, size_per_req, time_fastest and time_slowest at 0.
C5_ZeroRequests ==
    (num = 0 /\ conc >= 1) =>
        /\ fault = "none"
        /\ mainpc = "done" =>
              /\ report.req_num = 0
              /\ report.time_average = 0
              /\ report.size_per_req = 0
              /\ report.time_fastest = 0
              /\ report.time_slowest = 0

\* C6: with C <= 0 no worker is created, no request is dispatched, and main
\* neither takes a remainder by zero nor indexes the empty worker list.
C6_BadConcurrencyRejected ==
    (conc <= 0) =>
        /\ created = 0
        /\ cnt = 0
        /\ fault \notin {"rem_by_zero", "index_oob"}

\* C7: for N >= 0 and C >= 1, when every exchange returns and every thread
\* is scheduled fairly, eventually every worker has received its Stop and
\* exited and the join loop has returned.
C7_AllTerminate ==
    (conc >= 1) =>
        <>(JoinReturned /\ \A w \in 0..(conc - 1) : GotStop(w) /\ wpc[w] = "exited")

\* C8: whenever no thread holds the Report mutex, every observation in
\* results is fully accounted: the status counts sum to req_num, req_num is
\* the length of results, and no status-200 observation is in results with
\* its bytes still to be added to size_total.
C8_AtomicRecord ==
    (lock = NoOne) =>
        /\ report.req_num = Len(report.results)
        /\ SumStatus(report.status_num) = report.req_num
        /\ \A w \in WorkerIds : wpc[w] # "want_size"

\* C9: after a completed run size_total is the sum of the real body lengths
\* of the status-200 responses, and every response, whatever its status, is
\* counted in req_num, results and status_num.
C9_SizeOf200Only ==
    JoinReturned =>
        /\ report.size_total = bytes200
        /\ report.req_num = completed
        /\ Len(report.results) = completed
        /\ SumStatus(report.status_num) = completed

\* C10: the latency recorded in each observation is the full elapsed time
\* of its exchange, also for an exchange that took a second or more.
C10_FullLatency ==
    (mainpc \notin {"done", "hist_loop"}) =>
        \A i \in 1..Len(report.results) :
            report.results[i][2] = elapsedLog[i]

\* C11: for C >= 1 and N >= 1 req_per_sec is num_requests divided by the
\* whole elapsed time from t1 to t2 in seconds (here to whole requests per
\* second), also for a run of a second or more.
C11_ReqPerSecWholeSpan ==
    (JoinReturned /\ conc >= 1 /\ num >= 1 /\ runMicros > 0) =>
        report.req_per_sec = (MicrosPerSec * num) \div runMicros

\* Execute items worker w has received
ExecReceived(w) == Count(SubSeq(sent[w], 1, rcvd[w]), "Execute")

\* C12: a worker that is not in the middle of an item has pushed exactly
\* one observation for every Execute item it has received; in the middle of
\* an item it is one short until the push.
C12_OneObservationPerItem ==
    \A w \in 0..(created - 1) :
        pushed[w] =
            IF wpc[w] \in {"request", "want_timing", "in_timing"}
            THEN ExecReceived(w) - 1
            ELSE ExecReceived(w)

\* finalize has been called
FinalizeRan ==
    \/ mainpc \in {"done", "hist_loop"}
    \/ mainpc = "panicked" /\ fault = "div_by_zero"

\* C13 (states): when finalize is about to run, runs or has run, the join
\* loop is over, every worker has exited with an empty channel, nobody
\* holds the mutex and no worker can take a step.
C13_WorkersGone ==
    (mainpc = "finalize" \/ FinalizeRan) =>
        /\ joinIdx = created
        /\ lock = NoOne
        /\ \A w \in 0..(created - 1) : wpc[w] = "exited" /\ Pending(w) = <<>>
        /\ \A w \in WorkerIds : ~ ENABLED WorkerStep(w)

\* C13 (steps): only finalize itself writes the Report once main has reached
\* it, and after finalize has run nothing changes, so it runs once.
C13_NoWriteAfter ==
    /\ (mainpc = "finalize" /\ report' # report) => FinalizeRan'
    /\ FinalizeRan => (report' = report /\ mainpc' = mainpc)

\* C13: finalization runs once, only after the join loop has returned, and
\* the Report is never written by a worker from then on.
C13_FinalizeAfterJoin == [](C13_WorkersGone) /\ [][C13_NoWriteAfter]_vars

C13_Witness ==
    /\ conc = 2
    /\ num = 3
    /\ mainpc = "done"
    /\ report.req_num = 3
    /\ \A w \in 0..1 : wpc[w] = "exited" /\ pushed[w] >= 1

MinOf(S) == CHOOSE x \in S : \A y \in S : x <= y

MaxOf(S) == CHOOSE x \in S : \A y \in S : y <= x

\* the latencies in results
Latencies == {report.results[i][2] : i \in 1..Len(report.results)}

\* C14: after the sort of finalize, results is in non-decreasing order of
\* latency, time_fastest is the least and time_slowest the greatest latency.
C14_SortedByLatency ==
    (mainpc \in {"done", "hist_loop"}) =>
        /\ \A i, j \in 1..Len(report.results) :
              i < j => report.results[i][2] <= report.results[j][2]
        /\ report.time_fastest = MinOf(Latencies)
        /\ report.time_slowest = MaxOf(Latencies)

\* C15: for req_num >= 1 the loop of print_histogram ends and the counts
\* of its 11 buckets add up to req_num.
C15_HistogramTerminates ==
    /\ mainpc # "hist_loop"
    /\ mainpc = "done" =>
          SumOver(histogram, 0..Bc) = report.req_num

\* C16: when all latencies are the same, the last bucket counts req_num
\* samples and every other bucket none.
C16_AllInLastBucket ==
    (mainpc = "done" /\ Cardinality(Latencies) = 1
       /\ report.time_slowest = report.time_fastest) =>
        /\ histogram[Bc] = report.req_num
        /\ \A i \in 0..(Bc - 1) : histogram[i] = 0

\* indexes (from 0) whose rank i * 100 / n reaches the j-th target
Qualifying(j) ==
    {i \in 0..(Len(report.lats) - 1) :
        (i * 100) \div Len(report.lats) >= Pctls[j]}

\* C17: a target some index qualifies for is printed, with the latency at
\* the first such index; a target is left out only when no index qualifies.
C17_FirstQualifyingIndex ==
    (mainpc = "done") =>
        \A j \in 1..Len(Pctls) :
            IF Qualifying(j) = {} THEN latency[j] = 0
            ELSE /\ latency[j] > 0
                 /\ latency[j] = report.lats[MinOf(Qualifying(j)) + 1]

\* lats is in non-decreasing order
LatsSorted ==
    \A i, j \in 1..Len(report.lats) : i < j => report.lats[i] <= report.lats[j]

\* C18: for sorted latencies the printed percentile values do not decrease
\* as the target grows.
C18_PercentilesMonotone ==
    (mainpc = "done" /\ LatsSorted) =>
        \A j, k \in 1..Len(Pctls) :
            (j < k /\ latency[j] > 0 /\ latency[k] > 0) =>
                latency[j] <= latency[k]

C18_Witness ==
    /\ mainpc = "done"
    /\ LatsSorted
    /\ Len(report.lats) = 4
    /\ latency[1] > 0
    /\ latency[2] > 0
    /\ latency[3] > latency[1]

\* worker w is inside a critical section of b
InCS(w) == wpc[w] \in {"in_timing", "in_other", "in_size", "in_ok"}

\* the step that ends w's critical section
Release(w) == RecordTiming(w) \/ CountOther(w) \/ AddSize(w) \/ CountOk(w)

\* C19: a worker holds the mutex exactly while it is inside a critical
\* section of b (not while it waits for the exchange, for its channel or
\* for the mutex, nor after b has returned); at most one worker is inside;
\* and while the process lives the holder can take the step that releases.
C19_LockDiscipline ==
    /\ \A w \in WorkerIds : (lock = w) <=> InCS(w)
    /\ Cardinality({w \in WorkerIds : InCS(w)}) <= 1
    /\ \A w \in WorkerIds : (lock = w /\ ProcessAlive) => ENABLED Release(w)

C19_Witness ==
    /\ lock = 0
    /\ wpc[0] = "in_size"
    /\ wpc[1] = "want_other"

\* workers that have pushed an observation and not yet counted its status
Uncounted ==
    {w \in WorkerIds : wpc[w] \in {"want_other", "in_other", "want_size",
                                   "in_size", "want_ok", "in_ok"}}

\* C20: in every state req_num is the length of results, the status counts
\* sum to at most req_num, req_num is at most N, and req_num exceeds the sum
\* by at most the number of workers between their push and their status
\* count, which is at most the number of workers.
C20_CountsInFlight ==
    /\ report.req_num = Len(report.results)
    /\ SumStatus(report.status_num) <= report.req_num
    /\ report.req_num <= (IF num > 0 THEN num ELSE 0)
    /\ report.req_num - SumStatus(report.status_num) <= Cardinality(Uncounted)
    /\ Cardinality(Uncounted) <= created

C20_Witness ==
    /\ conc = 2
    /\ report.req_num = 3
    /\ SumStatus(report.status_num) = 1
    /\ Cardinality(Uncounted) = 2
====
